---- MODULE Spec2Model ----
(***************************************************************************)
(* Model of the MapboxMap dashboard component (components/MapboxMap.tsx):  *)
(* the per-country aggregation of project records, the startup load, the   *)
(* map event handlers, the popups and the view controller.                 *)
(*                                                                         *)
(* Conventions.  A JavaScript string that the code inspects character by   *)
(* character (Country, polygon names) is a tuple of one-character strings. *)
(* A nullable value is Null (the empty tuple) or Some(v) (a one-tuple).    *)
(* Coordinates are pairs <<lng, lat>> in units of 1/100 degree.            *)
(***************************************************************************)
EXTENDS Integers, Sequences, FiniteSets, TLC

(* ------------------------------ bounds --------------------------------- *)

\* Longest record sequence handed to processProjectData in SpecAgg.
MaxRecords == 3

\* Longest record sequence served as /data.geojson in Spec.
MaxLoaded == 2

\* The number of values Math.random() takes in the data generator.
RandSteps == 6

\* Largest whole part of a total handed to the popup renderers in SpecFormat.
MaxWhole == 1100

(* --------------------------- generic helpers --------------------------- *)

Null == <<>>

Some(v) == <<v>>

Range(s) == {s[i] : i \in 1..Len(s)}

SeqsUpTo(S, n) == UNION {[1..k -> S] : k \in 0..n}

RECURSIVE SumSeq(_)
SumSeq(s) == IF s = <<>> THEN 0 ELSE s[1] + SumSeq(Tail(s))

Map(s, F(_)) == [i \in 1..Len(s) |-> F(s[i])]

\* Array.prototype.includes on an array of primitives.
ArrayIncludes(arr, x) == \E i \in 1..Len(arr) : arr[i] = x

\* [...new Set(arr)]: the distinct elements of arr, each at the place of its
\* first occurrence.
RECURSIVE SetSpread(_)
SetSpread(arr) ==
    IF arr = <<>> THEN <<>>
    ELSE LET init == SetSpread(SubSeq(arr, 1, Len(arr) - 1))
             last == arr[Len(arr)]
         IN IF ArrayIncludes(init, last) THEN init ELSE Append(init, last)

(* ------------------------------ strings -------------------------------- *)

UpperChars == <<"A", "B", "C", "D", "E", "F", "G", "H", "I", "J", "K", "L", "M",
                "N", "O", "P", "Q", "R", "S", "T", "U", "V", "W", "X", "Y", "Z">>

LowerChars == <<"a", "b", "c", "d", "e", "f", "g", "h", "i", "j", "k", "l", "m",
                "n", "o", "p", "q", "r", "s", "t", "u", "v", "w", "x", "y", "z">>

LowerChar(c) ==
    IF \E i \in 1..26 : UpperChars[i] = c
    THEN LowerChars[CHOOSE i \in 1..26 : UpperChars[i] = c]
    ELSE c

\* String.prototype.toLowerCase
toLowerCase(s) == [i \in 1..Len(s) |-> LowerChar(s[i])]

\* String.prototype.includes: t occurs in s as a contiguous substring.
StrIncludes(s, t) ==
    \E i \in 1..(Len(s) - Len(t) + 1) : SubSeq(s, i, i + Len(t) - 1) = t

Kenya == <<"K", "e", "n", "y", "a">>

KENYA == <<"K", "E", "N", "Y", "A">>

Sudan == <<"S", "u", "d", "a", "n">>

SouthSudan == <<"S", "o", "u", "t", "h", " ", "S", "u", "d", "a", "n">>

Afghanistan == <<"A", "f", "g", "h", "a", "n", "i", "s", "t", "a", "n">>

Iraq == <<"I", "r", "a", "q">>

Syria == <<"S", "y", "r", "i", "a">>

Yemen == <<"Y", "e", "m", "e", "n">>

Ukraine == <<"U", "k", "r", "a", "i", "n", "e">>

Somalia == <<"S", "o", "m", "a", "l", "i", "a">>

Ethiopia == <<"E", "t", "h", "i", "o", "p", "i", "a">>

ConstructorStr == <<"c", "o", "n", "s", "t", "r", "u", "c", "t", "o", "r">>

ToStringStr == <<"t", "o", "S", "t", "r", "i", "n", "g">>

\* A Country that is the decimal text of an integer.
NumericCountry == <<"7">>

UnknownCountry ==
    <<"U", "n", "k", "n", "o", "w", "n", " ", "C", "o", "u", "n", "t", "r", "y">>

\* Values of NEXT_PUBLIC_MAPBOX_ACCESS_TOKEN: unset, a public token and a
\* secret token.
NoToken == <<>>

PublicToken == <<"p", "k", ".", "e", "y">>

SecretToken == <<"s", "k", ".", "e", "y">>

PkPrefix == <<"p", "k", ".">>

\* String.prototype.startsWith
startsWith(s, prefix) ==
    Len(s) >= Len(prefix) /\ SubSeq(s, 1, Len(prefix)) = prefix

\* validateEnvironment of lib/config.ts: the errors it collects.
validateEnvironment(token) ==
    LET errors ==
            IF token = <<>>
            THEN <<"NEXT_PUBLIC_MAPBOX_ACCESS_TOKEN is required">>
            ELSE IF ~startsWith(token, PkPrefix)
            THEN <<"NEXT_PUBLIC_MAPBOX_ACCESS_TOKEN must be a valid Mapbox public token (starts with 'pk.')">>
            ELSE <<>>
    IN [isValid |-> Len(errors) = 0, errors |-> errors]

(* --------------------------- project records --------------------------- *)

Feature(name, country, budget, beneficiaries, sector, partner, coords) ==
    [properties |-> [ProjectName |-> name, Country |-> country,
                     Budget |-> budget, Beneficiaries |-> beneficiaries,
                     Sector |-> sector, ImplementingPartner |-> partner],
     geometry |-> [coordinates |-> coords]]

\* The project records the inputs are drawn from.
FeaturePool ==
    { Feature("P1", Kenya, 1000, 50, "Health", "WHO", <<3790, -3>>),
      Feature("P2", Kenya, 2000, 30, "Health", "UNICEF", <<3682, -129>>),
      Feature("P3", Kenya, 40, 7, "Education", "WHO", <<3600, 100>>),
      Feature("P4", KENYA, 500, 10, "Education", "WHO", <<3490, 50>>),
      Feature("P5", SouthSudan, 700, 20, "Water", "UNICEF", <<3100, 700>>),
      Feature("P6", Sudan, 0, 0, "Health", "WHO", <<3000, 1500>>),
      Feature("P7", ConstructorStr, 100, 5, "Health", "WHO", <<0, 0>>),
      Feature("P8", NumericCountry, 300, 9, "Water", "WHO", <<100, 200>>) }

\* The records served as /data.geojson in Spec.
LoadPool ==
    { f \in FeaturePool : f.properties.ProjectName \in {"P1", "P4", "P5", "P7"} }

\* Records served as /data.geojson in Spec of which two name one country.
RepeatPool ==
    { f \in FeaturePool : f.properties.ProjectName \in {"P1", "P2"} }

\* The contents of /data.geojson in Spec: records of one of the two pools,
\* every project listed once.
DataFiles ==
    {file \in SeqsUpTo(LoadPool, MaxLoaded) \cup SeqsUpTo(RepeatPool, MaxLoaded) :
        \A i, j \in 1..Len(file) : i # j => file[i] # file[j]}

(* ------------------- plain objects used as dictionaries ---------------- *)

\* A plain object is the sequence of its own <<key, value>> entries in
\* property order.  Every value is a record with a field kind.
Undefined == [kind |-> "undefined"]

\* Names every object inherits from Object.prototype.
ObjectPrototypeKeys == {ConstructorStr, ToStringStr}

Inherited(key) == [kind |-> "inherited", name |-> key]

HasOwn(obj, key) == \E i \in 1..Len(obj) : obj[i][1] = key

OwnIndex(obj, key) == CHOOSE i \in 1..Len(obj) : obj[i][1] = key

\* obj[key]: the own property, else the inherited one, else undefined.
GetProp(obj, key) ==
    IF HasOwn(obj, key) THEN obj[OwnIndex(obj, key)][2]
    ELSE IF key \in ObjectPrototypeKeys THEN Inherited(key)
    ELSE Undefined

Digits == <<"0", "1", "2", "3", "4", "5", "6", "7", "8", "9">>

IsDigit(c) == \E d \in 1..Len(Digits) : Digits[d] = c

DigitValue(c) == (CHOOSE d \in 1..Len(Digits) : Digits[d] = c) - 1

\* The key is an array index: the decimal text of an integer below 2^32 - 1
\* (here of at most nine digits), which has no leading zero.
IsArrayIndex(key) ==
    /\ Len(key) \in 1..9
    /\ \A i \in 1..Len(key) : IsDigit(key[i])
    /\ Len(key) = 1 \/ key[1] # "0"

RECURSIVE ArrayIndexValue(_)
ArrayIndexValue(key) ==
    IF key = <<>> THEN 0
    ELSE 10 * ArrayIndexValue(SubSeq(key, 1, Len(key) - 1))
           + DigitValue(key[Len(key)])

\* obj[key] = value.  A new property takes its place in the property order:
\* the array indices come first, in ascending order, the other strings after
\* them, in the order of their creation.
SetProp(obj, key, value) ==
    IF HasOwn(obj, key)
    THEN [obj EXCEPT ![OwnIndex(obj, key)] = <<key, value>>]
    ELSE IF IsArrayIndex(key)
    THEN LET before == Cardinality(
                 {i \in 1..Len(obj) :
                     /\ IsArrayIndex(obj[i][1])
                     /\ ArrayIndexValue(obj[i][1]) < ArrayIndexValue(key)})
         IN SubSeq(obj, 1, before) \o << <<key, value>> >>
              \o SubSeq(obj, before + 1, Len(obj))
    ELSE Append(obj, <<key, value>>)

Truthy(v) == v.kind # "undefined"

OwnKeys(obj) == [i \in 1..Len(obj) |-> obj[i][1]]

(* ---------------------------- aggregation ------------------------------ *)

\* Variants of ProcessFeature with a plausible slip each; the properties of
\* the aggregation must tell them from the code.
ProcessFeature_OverwritesTotals(obj, feature) ==
    LET country == feature.properties.Country
        countryData == GetProp(obj, country)
        p == feature.properties
    IN IF ~Truthy(countryData)
       THEN [threw |-> FALSE,
             obj |-> SetProp(obj, country,
                       [kind |-> "aggregate", projects |-> <<p>>,
                        totalBudget |-> p.Budget,
                        totalBeneficiaries |-> p.Beneficiaries,
                        sectors |-> <<p.Sector>>,
                        partners |-> <<p.ImplementingPartner>>,
                        coordinates |-> feature.geometry.coordinates])]
       ELSE IF countryData.kind # "aggregate"
       THEN [threw |-> TRUE, obj |-> obj]
       ELSE [threw |-> FALSE,
             obj |-> SetProp(obj, country,
                       [countryData EXCEPT
                          !.projects = Append(@, p),
                          !.totalBudget = p.Budget,
                          !.totalBeneficiaries = p.Beneficiaries,
                          !.sectors = IF ArrayIncludes(@, p.Sector)
                                      THEN @ ELSE Append(@, p.Sector),
                          !.partners =
                              IF ArrayIncludes(@, p.ImplementingPartner)
                              THEN @ ELSE Append(@, p.ImplementingPartner)])]

ProcessFeature_Unshift(obj, feature) ==
    LET country == feature.properties.Country
        countryData == GetProp(obj, country)
        p == feature.properties
    IN IF ~Truthy(countryData)
       THEN [threw |-> FALSE,
             obj |-> SetProp(obj, country,
                       [kind |-> "aggregate", projects |-> <<p>>,
                        totalBudget |-> p.Budget,
                        totalBeneficiaries |-> p.Beneficiaries,
                        sectors |-> <<p.Sector>>,
                        partners |-> <<p.ImplementingPartner>>,
                        coordinates |-> feature.geometry.coordinates])]
       ELSE IF countryData.kind # "aggregate"
       THEN [threw |-> TRUE, obj |-> obj]
       ELSE [threw |-> FALSE,
             obj |-> SetProp(obj, country,
                       [countryData EXCEPT
                          !.projects = <<p>> \o @,
                          !.totalBudget = @ + p.Budget,
                          !.totalBeneficiaries = @ + p.Beneficiaries,
                          !.sectors = IF ArrayIncludes(@, p.Sector)
                                      THEN @ ELSE Append(@, p.Sector),
                          !.partners =
                              IF ArrayIncludes(@, p.ImplementingPartner)
                              THEN @ ELSE Append(@, p.ImplementingPartner)])]

ProcessFeature_AlwaysPush(obj, feature) ==
    LET country == feature.properties.Country
        countryData == GetProp(obj, country)
        p == feature.properties
    IN IF ~Truthy(countryData)
       THEN [threw |-> FALSE,
             obj |-> SetProp(obj, country,
                       [kind |-> "aggregate", projects |-> <<p>>,
                        totalBudget |-> p.Budget,
                        totalBeneficiaries |-> p.Beneficiaries,
                        sectors |-> <<p.Sector>>,
                        partners |-> <<p.ImplementingPartner>>,
                        coordinates |-> feature.geometry.coordinates])]
       ELSE IF countryData.kind # "aggregate"
       THEN [threw |-> TRUE, obj |-> obj]
       ELSE [threw |-> FALSE,
             obj |-> SetProp(obj, country,
                       [countryData EXCEPT
                          !.projects = Append(@, p),
                          !.totalBudget = @ + p.Budget,
                          !.totalBeneficiaries = @ + p.Beneficiaries,
                          !.sectors = Append(@, p.Sector),
                          !.partners = Append(@, p.ImplementingPartner)])]

\* ProcessFeature moving the aggregate to the coordinate of the latest record.
ProcessFeature_MovesCoordinates(obj, feature) ==
    LET country == feature.properties.Country
        countryData == GetProp(obj, country)
        p == feature.properties
    IN IF ~Truthy(countryData)
       THEN [threw |-> FALSE,
             obj |-> SetProp(obj, country,
                       [kind |-> "aggregate", projects |-> <<p>>,
                        totalBudget |-> p.Budget,
                        totalBeneficiaries |-> p.Beneficiaries,
                        sectors |-> <<p.Sector>>,
                        partners |-> <<p.ImplementingPartner>>,
                        coordinates |-> feature.geometry.coordinates])]
       ELSE IF countryData.kind # "aggregate"
       THEN [threw |-> TRUE, obj |-> obj]
       ELSE [threw |-> FALSE,
             obj |-> SetProp(obj, country,
                       [countryData EXCEPT
                          !.projects = Append(@, p),
                          !.totalBudget = @ + p.Budget,
                          !.totalBeneficiaries = @ + p.Beneficiaries,
                          !.sectors = IF ArrayIncludes(@, p.Sector) THEN @
                                      ELSE Append(@, p.Sector),
                          !.partners =
                              IF ArrayIncludes(@, p.ImplementingPartner) THEN @
                              ELSE Append(@, p.ImplementingPartner),
                          !.coordinates = feature.geometry.coordinates])]

\* One iteration of the forEach callback of processProjectData on the
\* mapping built so far.  threw is TRUE when the iteration raises TypeError.
ProcessFeature(obj, feature) ==
    LET country == feature.properties.Country
        countryData == GetProp(obj, country)
    IN IF ~Truthy(countryData)
       THEN [threw |-> FALSE,
             obj |-> SetProp(obj, country,
                       [kind |-> "aggregate",
                        projects |-> <<feature.properties>>,
                        totalBudget |-> feature.properties.Budget,
                        totalBeneficiaries |-> feature.properties.Beneficiaries,
                        sectors |-> <<feature.properties.Sector>>,
                        partners |-> <<feature.properties.ImplementingPartner>>,
                        coordinates |-> feature.geometry.coordinates])]
       ELSE IF countryData.kind # "aggregate"
       THEN \* countryData.projects is undefined: .push raises TypeError
            [threw |-> TRUE, obj |-> obj]
       ELSE [threw |-> FALSE,
             obj |-> SetProp(obj, country,
                       [countryData EXCEPT
                          !.projects = Append(@, feature.properties),
                          !.totalBudget = @ + feature.properties.Budget,
                          !.totalBeneficiaries =
                              @ + feature.properties.Beneficiaries,
                          !.sectors =
                              IF ArrayIncludes(@, feature.properties.Sector)
                              THEN @
                              ELSE Append(@, feature.properties.Sector),
                          !.partners =
                              IF ArrayIncludes(@,
                                     feature.properties.ImplementingPartner)
                              THEN @
                              ELSE Append(@,
                                     feature.properties.ImplementingPartner)])]

\* processProjectData(projectData): the forEach over projectData.features.
RECURSIVE processProjectData(_)
processProjectData(features) ==
    IF features = <<>> THEN [threw |-> FALSE, obj |-> <<>>]
    ELSE LET before == processProjectData(SubSeq(features, 1, Len(features) - 1))
         IN IF before.threw THEN before
            ELSE ProcessFeature(before.obj, features[Len(features)])

(* --------------------------- program constants ------------------------- *)

WORLD_CENTER == <<2000, 0>>

DEFAULT_ZOOM == 2

TokenRequiredMessage == "Mapbox access token is required. Please add NEXT_PUBLIC_MAPBOX_ACCESS_TOKEN to your .env.local file."

LoadFailedMessage == "Failed to load map data. Please check your internet connection and try again."

\* Value of hoveredStateId seen by the map event handlers.  The handlers are
\* created by addMapEventListeners of the first render (the effect has an
\* empty dependency list), so they close over the initial state value.
ClosureHoveredStateId == Null

(* ----------------------------- boundaries ------------------------------ *)

\* The polygon collection served at WORLD_BOUNDARIES_URL.  A missing name
\* property is Null.
WorldBoundaries ==
    << [properties |-> [NAME_EN |-> Some(Kenya), NAME |-> Null, ADMIN |-> Null],
        geometry |-> [coordinates |->
            << << <<3400, -400>>, <<4200, -400>>, <<4200, 500>>, <<3400, 500>> >> >>]],
       [properties |-> [NAME_EN |-> Null, NAME |-> Some(<<>>), ADMIN |-> Some(Sudan)],
        geometry |-> [coordinates |->
            << << <<2200, 900>>, <<3800, 900>>, <<3800, 2200>>, <<2200, 2200>> >> >>]],
       [properties |-> [NAME_EN |-> Null, NAME |-> Null, ADMIN |-> Null],
        geometry |-> [coordinates |->
            << << <<-1000, 2000>>, <<-600, 2000>>, <<-600, 2400>> >> >>]] >>

\* a || b on optional strings: a when a is present and non-empty, else b.
OrElse(a, b) == IF a # Null /\ a[1] # <<>> THEN a ELSE b

\* processedBoundaries.features: ids are the 0-based array indices.
ProcessBoundaries(features) ==
    [i \in 1..Len(features) |->
        [id |-> i - 1,
         properties |-> [feature_id |-> i - 1,
                         NAME |-> OrElse(features[i].properties.NAME_EN,
                                    OrElse(features[i].properties.NAME,
                                           features[i].properties.ADMIN))],
         geometry |-> features[i].geometry]]

(* ------------------------------- state --------------------------------- *)

VARIABLES
    aggInput,        \* projectData.features handed to processProjectData
    aggIdx,          \* number of records the forEach has visited
    aggObj,          \* projectsByCountryRegion so far
    aggState,        \* "idle", "running", "returned" or "threw"
    accessToken,     \* mapboxgl.accessToken: NoToken (unset), PublicToken or
                     \* SecretToken (a token the map service rejects)
    generated,       \* the feature generateProjects built last, Null if none
    formatted,       \* a total and its text in the two popups, Null if none
    serverFeatures,  \* the features served as /data.geojson
    phase,           \* "rendered" (effect not run), "mounted", "unmounted"
    mapCurrent,      \* map.current is not null
    loadPc,          \* position of the async load handler
    requests,        \* per startup request: the state of its fetch and of
                     \* the json() call on its response
    isLoading,
    error,
    selectedCountry,
    countries,
    hoveredStateId,
    sources,         \* sources of the map: sequence of [id, data]
    layers,          \* layers of the map: sequence of [id, source, filter]
    listeners,       \* layer event listeners of the map: set of [type, layer]
    projectData,     \* the projectData the listeners closed over
    popups,          \* elements of class mapboxgl-popup, in document order
    camera,          \* options of the last easeTo call, Null if none
    pending,         \* listeners still to run for the event being dispatched
    lastOp           \* the last operation that ran and what it did

aggVars == <<aggInput, aggIdx, aggObj, aggState>>

envVars == <<accessToken, serverFeatures, generated, formatted>>

loadVars == <<phase, mapCurrent, loadPc, requests, isLoading, error, countries,
              sources, listeners, projectData>>

viewVars == <<selectedCountry, hoveredStateId, layers, popups, camera>>

vars == <<aggVars, envVars, loadVars, viewVars, pending, lastOp>>

NoOp == [op |-> "none", target |-> -1, matched |-> 0, easeToCalls |-> 0,
         peakPopups |-> 0, escaped |-> FALSE]

\* The component right after its first render, before the effect runs.
ComponentInit ==
    /\ phase = "rendered"
    /\ mapCurrent = FALSE
    /\ loadPc = "notStarted"
    /\ requests = [project |-> [fetch |-> "idle", json |-> "idle"],
                   boundaries |-> [fetch |-> "idle", json |-> "idle"]]
    /\ isLoading = TRUE
    /\ error = Null
    /\ selectedCountry = Null
    /\ countries = <<>>
    /\ hoveredStateId = Null
    /\ sources = <<>>
    /\ layers = <<>>
    /\ listeners = {}
    /\ projectData = <<>>
    /\ popups = <<>>
    /\ camera = Null
    /\ pending = <<>>
    /\ lastOp = NoOp

(* ------------------- specification of the aggregation ------------------ *)

InitAgg ==
    /\ aggInput \in SeqsUpTo(FeaturePool, MaxRecords)
    /\ aggIdx = 0
    /\ aggObj = <<>>
    /\ aggState = "running"
    /\ accessToken = PublicToken
    /\ serverFeatures = <<>>
    /\ generated = Null
    /\ formatted = Null
    /\ ComponentInit

\* The forEach callback runs on the next record.
AggForEach ==
    /\ aggState = "running"
    /\ aggIdx < Len(aggInput)
    /\ LET r == ProcessFeature(aggObj, aggInput[aggIdx + 1])
       IN /\ aggObj' = r.obj
          /\ aggState' = IF r.threw THEN "threw" ELSE "running"
    /\ aggIdx' = aggIdx + 1
    /\ UNCHANGED <<aggInput, envVars, loadVars, viewVars, pending, lastOp>>

\* return projectsByCountryRegion
AggReturn ==
    /\ aggState = "running"
    /\ aggIdx = Len(aggInput)
    /\ aggState' = "returned"
    /\ UNCHANGED <<aggInput, aggIdx, aggObj, envVars, loadVars, viewVars,
                   pending, lastOp>>

NextAgg == AggForEach \/ AggReturn

SpecAgg == InitAgg /\ [][NextAgg]_vars

(* ---------------------- specification of the component ----------------- *)

Init ==
    /\ aggInput = <<>>
    /\ aggIdx = 0
    /\ aggObj = <<>>
    /\ aggState = "idle"
    /\ accessToken \in {NoToken, PublicToken, SecretToken}
    /\ serverFeatures \in DataFiles
    /\ generated = Null
    /\ formatted = Null
    /\ ComponentInit

Op(name) == [op |-> name, target |-> -1, matched |-> 0, easeToCalls |-> 0,
             peakPopups |-> Len(popups), escaped |-> FALSE]

CountryOf(f) == f.properties.Country

\* The body of the effect: the token check and the creation of the map.
MountEffect ==
    /\ phase = "rendered"
    /\ phase' = "mounted"
    /\ IF accessToken = NoToken
       THEN /\ error' = Some(TokenRequiredMessage)
            /\ isLoading' = FALSE
            /\ UNCHANGED mapCurrent
       ELSE /\ mapCurrent' = TRUE
            /\ UNCHANGED <<error, isLoading>>
    /\ lastOp' = Op("effect")
    /\ UNCHANGED <<aggVars, envVars, loadPc, requests, countries, sources,
                   listeners, projectData, viewVars, pending>>

\* The map fires "load", which it does once its style has loaded and so
\* only with a token the map service accepts: the handler sets isLoading and
\* issues both fetches.
MapLoad ==
    /\ mapCurrent
    /\ accessToken = PublicToken
    /\ loadPc = "notStarted"
    /\ pending = <<>>
    /\ isLoading' = TRUE
    /\ requests' = [w \in DOMAIN requests |->
                        [requests[w] EXCEPT !.fetch = "pending"]]
    /\ loadPc' = "awaitFetch"
    /\ lastOp' = Op("load")
    /\ UNCHANGED <<aggVars, envVars, phase, mapCurrent, error, countries,
                   sources, listeners, projectData, viewVars, pending>>

\* A fetch settles: it resolves with a success or a non-success status, or
\* it rejects.
FetchSettles(which, outcome) ==
    /\ requests[which].fetch = "pending"
    /\ pending = <<>>
    /\ requests' = [requests EXCEPT ![which].fetch = outcome]
    /\ lastOp' = Op("fetchSettles")
    /\ UNCHANGED <<aggVars, envVars, phase, mapCurrent, loadPc, isLoading,
                   error, countries, sources, listeners, projectData,
                   viewVars, pending>>

\* The catch block leaving the loading indicator on.
LoadCatch_KeepsLoading ==
    /\ error' = Some(LoadFailedMessage)
    /\ UNCHANGED isLoading
    /\ loadPc' = "failed"

\* The catch block of the load handler.
LoadCatch ==
    /\ error' = Some(LoadFailedMessage)
    /\ isLoading' = FALSE
    /\ loadPc' = "failed"

\* AfterFetches without the check of boundariesResponse.ok.
AfterFetches_SkipsOkCheck ==
    /\ loadPc = "awaitFetch"
    /\ pending = <<>>
    /\ \/ \E w \in DOMAIN requests : requests[w].fetch = "rejected"
       \/ \A w \in DOMAIN requests : requests[w].fetch \in {"ok", "notOk"}
    /\ IF \/ \E w \in DOMAIN requests : requests[w].fetch = "rejected"
          \/ requests.project.fetch = "notOk"
       THEN /\ LoadCatch
            /\ UNCHANGED requests
       ELSE /\ requests' = [w \in DOMAIN requests |->
                               [requests[w] EXCEPT !.json = "pending"]]
            /\ loadPc' = "awaitJson"
            /\ UNCHANGED <<error, isLoading>>
    /\ lastOp' = Op("afterFetches")
    /\ UNCHANGED <<aggVars, envVars, phase, mapCurrent, countries, sources,
                   listeners, projectData, viewVars, pending>>

\* The handler resumes after the first Promise.all: it rejects with the first
\* rejected fetch, else it resolves when both fetches have; then the two ok
\* checks, and the two json() calls.
AfterFetches ==
    /\ loadPc = "awaitFetch"
    /\ pending = <<>>
    /\ \/ \E w \in DOMAIN requests : requests[w].fetch = "rejected"
       \/ \A w \in DOMAIN requests : requests[w].fetch \in {"ok", "notOk"}
    /\ IF \/ \E w \in DOMAIN requests : requests[w].fetch = "rejected"
          \/ requests.project.fetch = "notOk"
          \/ requests.boundaries.fetch = "notOk"
       THEN /\ LoadCatch
            /\ UNCHANGED requests
       ELSE /\ requests' = [w \in DOMAIN requests |->
                               [requests[w] EXCEPT !.json = "pending"]]
            /\ loadPc' = "awaitJson"
            /\ UNCHANGED <<error, isLoading>>
    /\ lastOp' = Op("afterFetches")
    /\ UNCHANGED <<aggVars, envVars, phase, mapCurrent, countries, sources,
                   listeners, projectData, viewVars, pending>>

\* A json() call settles: the body parses, or the call rejects.
JsonSettles(which, outcome) ==
    /\ requests[which].json = "pending"
    /\ pending = <<>>
    /\ requests' = [requests EXCEPT ![which].json = outcome]
    /\ lastOp' = Op("jsonSettles")
    /\ UNCHANGED <<aggVars, envVars, phase, mapCurrent, loadPc, isLoading,
                   error, countries, sources, listeners, projectData,
                   viewVars, pending>>

WorldLayers ==
    << [id |-> "world-fills", source |-> "world-boundaries", filter |-> Null],
       [id |-> "world-hover", source |-> "world-boundaries",
        filter |-> Some(-1)],
       [id |-> "world-borders", source |-> "world-boundaries", filter |-> Null],
       [id |-> "country-labels", source |-> "world-boundaries",
        filter |-> Null] >>

\* addMapLayers
addMapLayers(ls) == ls \o WorldLayers

\* The features of the project-locations source built by addProjectLayers.
ProjectLocations(projectsByCountryRegion) ==
    [i \in 1..Len(projectsByCountryRegion) |->
        LET country == projectsByCountryRegion[i][1]
            data == projectsByCountryRegion[i][2]
        IN [properties |-> [country |-> country,
                            region |-> "Global",
                            projects |-> data.projects,
                            totalBudget |-> data.totalBudget,
                            totalBeneficiaries |-> data.totalBeneficiaries,
                            sectors |-> data.sectors,
                            partners |-> data.partners],
            geometry |-> [coordinates |-> data.coordinates]]]

\* addMapEventListeners
MapEventListeners ==
    { [type |-> "mousemove", layer |-> "world-fills"],
      [type |-> "mouseleave", layer |-> "world-fills"],
      [type |-> "click", layer |-> "world-fills"],
      [type |-> "click", layer |-> "project-points"] }

\* The handler resumes after the second Promise.all and runs to its end.
\* The list of the filter panel keeping every record's country.
uniqueCountries_NoDedupe(features) == Map(features, CountryOf)

\* [...new Set(projectData.features.map((f) => f.properties.Country))]
uniqueCountries(features) == SetSpread(Map(features, CountryOf))

\* AfterJson adding sources, layers and listeners to a removed map too.
AfterJson_AddsToRemovedMap ==
    /\ loadPc = "awaitJson"
    /\ pending = <<>>
    /\ \/ \E w \in DOMAIN requests : requests[w].json = "rejected"
       \/ \A w \in DOMAIN requests : requests[w].json = "parsed"
    /\ lastOp' = Op("afterJson")
    /\ IF \E w \in DOMAIN requests : requests[w].json = "rejected"
       THEN /\ LoadCatch
            /\ UNCHANGED <<countries, sources, layers, listeners, projectData>>
       ELSE LET features == serverFeatures
                boundarySource ==
                    [id |-> "world-boundaries",
                     data |-> ProcessBoundaries(WorldBoundaries)]
                byCountry == processProjectData(features)
            IN /\ countries' = uniqueCountries(features)
               /\ IF byCountry.threw
                  THEN /\ sources' = Append(sources, boundarySource)
                       /\ layers' = addMapLayers(layers)
                       /\ LoadCatch
                       /\ UNCHANGED <<listeners, projectData>>
                  ELSE /\ sources' = sources \o
                              << boundarySource,
                                 [id |-> "project-locations",
                                  data |-> ProjectLocations(byCountry.obj)] >>
                       /\ layers' = Append(addMapLayers(layers),
                              [id |-> "project-points",
                               source |-> "project-locations",
                               filter |-> Null])
                       /\ listeners' = listeners \cup MapEventListeners
                       /\ projectData' = features
                       /\ isLoading' = FALSE
                       /\ loadPc' = "done"
                       /\ UNCHANGED error
    /\ UNCHANGED <<aggVars, envVars, phase, mapCurrent, requests,
                   selectedCountry, hoveredStateId, popups, camera, pending>>

\* The rest of the load handler, once both bodies are parsed or one failed.
AfterJson ==
    /\ loadPc = "awaitJson"
    /\ pending = <<>>
    /\ \/ \E w \in DOMAIN requests : requests[w].json = "rejected"
       \/ \A w \in DOMAIN requests : requests[w].json = "parsed"
    /\ lastOp' = Op("afterJson")
    /\ IF \E w \in DOMAIN requests : requests[w].json = "rejected"
       THEN /\ LoadCatch
            /\ UNCHANGED <<countries, sources, layers, listeners, projectData>>
       ELSE LET features == serverFeatures
                boundarySource ==
                    [id |-> "world-boundaries",
                     data |-> ProcessBoundaries(WorldBoundaries)]
                byCountry == processProjectData(features)
            IN /\ countries' = uniqueCountries(features)
               /\ IF ~mapCurrent
                  THEN \* map.current!.addSource raises TypeError
                       /\ LoadCatch
                       /\ UNCHANGED <<sources, layers, listeners, projectData>>
                  ELSE IF byCountry.threw
                  THEN /\ sources' = Append(sources, boundarySource)
                       /\ layers' = addMapLayers(layers)
                       /\ LoadCatch
                       /\ UNCHANGED <<listeners, projectData>>
                  ELSE /\ sources' = sources \o
                              << boundarySource,
                                 [id |-> "project-locations",
                                  data |-> ProjectLocations(byCountry.obj)] >>
                       /\ layers' = Append(addMapLayers(layers),
                              [id |-> "project-points",
                               source |-> "project-locations",
                               filter |-> Null])
                       /\ listeners' = listeners \cup MapEventListeners
                       /\ projectData' = features
                       /\ isLoading' = FALSE
                       /\ loadPc' = "done"
                       /\ UNCHANGED error
    /\ UNCHANGED <<aggVars, envVars, phase, mapCurrent, requests,
                   selectedCountry, hoveredStateId, popups, camera, pending>>

\* The cleanup of the effect: the map is removed, and with it its popups.
Unmount ==
    /\ phase = "mounted"
    /\ pending = <<>>
    /\ phase' = "unmounted"
    /\ mapCurrent' = FALSE
    /\ popups' = IF mapCurrent THEN <<>> ELSE popups
    /\ lastOp' = Op("cleanup")
    /\ UNCHANGED <<aggVars, envVars, loadPc, requests, isLoading, error,
                   countries, sources, listeners, projectData,
                   selectedCountry, hoveredStateId, layers, camera, pending>>

(* ------------------------- popups and handlers ------------------------- *)

\* Number.prototype.toString of a non-negative integer: its decimal digits.
RECURSIVE NumberToString(_)
NumberToString(n) ==
    IF n < 10 THEN <<n>> ELSE Append(NumberToString(n \div 10), n % 10)

\* parseInt of a string of decimal digits.
RECURSIVE parseInt(_)
parseInt(digits) ==
    IF digits = <<>> THEN 0
    ELSE 10 * parseInt(SubSeq(digits, 1, Len(digits) - 1)) + digits[Len(digits)]

\* Number.prototype.toLocaleString of a non-negative integer: its groups of
\* three digits, which the rendering separates by commas.
RECURSIVE toLocaleString(_)
toLocaleString(n) ==
    IF n < 1000 THEN <<n>> ELSE Append(toLocaleString(n \div 1000), n % 1000)

\* JSON.stringify of an array, as the map does to the nested properties of
\* a feature it returns to a listener, and JSON.parse of such a string.
JsonStringify(v) == [kind |-> "string", wellFormed |-> TRUE, json |-> v]

\* A string that is not JSON text.
MalformedJson == [kind |-> "string", wellFormed |-> FALSE, json |-> <<>>]

\* JSON.parse throws a SyntaxError on a string that is not JSON text.
JsonParseThrows(str) == ~str.wellFormed

JsonParse(str) == str.json

ProjectNameOf(p) == p.ProjectName

\* Array.prototype.reduce((sum, x) => sum + x, 0)
RECURSIVE ReduceSum(_)
ReduceSum(numbers) ==
    IF numbers = <<>> THEN 0
    ELSE ReduceSum(SubSeq(numbers, 1, Len(numbers) - 1)) + numbers[Len(numbers)]

calculateProjectStats(projects) ==
    [totalBudget |-> ReduceSum([i \in 1..Len(projects) |->
                                    projects[i].properties.Budget]),
     totalBeneficiaries |-> ReduceSum([i \in 1..Len(projects) |->
                                    projects[i].properties.Beneficiaries]),
     sectors |-> SetSpread([i \in 1..Len(projects) |->
                                    projects[i].properties.Sector]),
     partners |-> SetSpread([i \in 1..Len(projects) |->
                                    projects[i].properties.ImplementingPartner])]

\* The markup, as the values it interpolates.
createPopupHTML(countryName, projects, stats) ==
    [title |-> countryName,
     budget |-> toLocaleString(stats.totalBudget),
     beneficiaries |-> toLocaleString(stats.totalBeneficiaries),
     projectCount |-> Len(projects),
     projectsList |-> [i \in 1..Len(projects) |->
                          projects[i].properties.ProjectName],
     sectorsList |-> stats.sectors,
     partnersList |-> stats.partners]

createProjectPopupHTML(properties, projects, sectors, partners) ==
    [title |-> properties.country,
     budget |-> toLocaleString(parseInt(NumberToString(properties.totalBudget))),
     beneficiaries |->
         toLocaleString(parseInt(NumberToString(properties.totalBeneficiaries))),
     projectCount |-> Len(projects),
     projectsList |-> Map(projects, ProjectNameOf),
     sectorsList |-> sectors,
     partnersList |-> partners]

\* The part of the state the click handlers and the view controller act on.
View ==
    [popups |-> popups, layers |-> layers, hoveredStateId |-> hoveredStateId,
     camera |-> camera, selectedCountry |-> selectedCountry,
     easeToCalls |-> 0, peakPopups |-> Len(popups), threw |-> FALSE]

\* map.setFilter(layerId, ["==", ["get", "feature_id"], value])
setFilter(ls, layerId, value) ==
    [i \in 1..Len(ls) |->
        IF ls[i].id = layerId THEN [ls[i] EXCEPT !.filter = Some(value)]
        ELSE ls[i]]

\* new mapboxgl.Popup(...).setLngLat(lngLat).setHTML(html).addTo(map)
AddPopup(v, lngLat, html) ==
    LET shown == Append(v.popups, [lngLat |-> lngLat, html |-> html])
    IN [v EXCEPT !.popups = shown,
                 !.peakPopups = IF Len(shown) > @ THEN Len(shown) ELSE @]

\* map.easeTo(options)
easeTo(v, options) ==
    [v EXCEPT !.camera = Some(options), !.easeToCalls = @ + 1]

MinOf(S) == CHOOSE x \in S : \A y \in S : x <= y

MaxOf(S) == CHOOSE x \in S : \A y \in S : x >= y

\* The LngLatBounds extended by every coordinate of the ring.
BoundsOf(ring) ==
    [west |-> MinOf({ring[i][1] : i \in 1..Len(ring)}),
     east |-> MaxOf({ring[i][1] : i \in 1..Len(ring)}),
     south |-> MinOf({ring[i][2] : i \in 1..Len(ring)}),
     north |-> MaxOf({ring[i][2] : i \in 1..Len(ring)})]

\* showPopup highlighting only when the identifier is truthy.
showPopup_SkipsFalsyId(v, feature, html, featureId) ==
    LET bounds == BoundsOf(feature.geometry.coordinates[1])
        center == << (bounds.west + bounds.east) \div 2,
                     (bounds.south + bounds.north) \div 2 >>
        popupLngLat == <<bounds.east + 50, center[2]>>
        shown == AddPopup(v, popupLngLat, html)
        moved == easeTo(shown, [center |-> Some(<<center[1] + 100, center[2]>>),
                                zoom |-> Null, duration |-> 1000])
    IN IF featureId = 0 THEN moved
       ELSE [moved EXCEPT !.layers = setFilter(@, "world-hover", featureId),
                          !.hoveredStateId = Some(featureId)]

showPopup(v, feature, html, featureId) ==
    LET bounds == BoundsOf(feature.geometry.coordinates[1])
        center == << (bounds.west + bounds.east) \div 2,
                     (bounds.south + bounds.north) \div 2 >>
        popupLngLat == <<bounds.east + 50, center[2]>>
        shown == AddPopup(v, popupLngLat, html)
        moved == easeTo(shown, [center |-> Some(<<center[1] + 100, center[2]>>),
                                zoom |-> Null, duration |-> 1000])
    IN [moved EXCEPT !.layers = setFilter(@, "world-hover", featureId),
                     !.hoveredStateId = Some(featureId)]

\* The project records whose Country, lower-cased, contains the lower-cased
\* country name.
MatchingProjects(features, countryName) ==
    SelectSeq(features,
              LAMBDA project :
                  StrIncludes(toLowerCase(project.properties.Country),
                              toLowerCase(countryName)))

\* feature.properties?.NAME || "Unknown Country"
CountryNameOf(feature) ==
    OrElse(feature.properties.NAME, Some(UnknownCountry))[1]

\* A handler that leaves the popups on display in place.
RemoveExistingPopups_KeepsThem(v) == v

RemoveExistingPopups(v) == [v EXCEPT !.popups = <<>>]

\* handleCountryClick matching the Country against the name exactly.
handleCountryClick_ExactMatch(v, feature, features) ==
    LET cleared == RemoveExistingPopups(v)
        countryName == CountryNameOf(feature)
        featureId == IF feature.id # 0 THEN feature.id
                     ELSE feature.properties.feature_id
        matchingProjects ==
            SelectSeq(features,
                      LAMBDA project : project.properties.Country = countryName)
    IN IF Len(matchingProjects) = 0 THEN cleared
       ELSE showPopup(cleared, feature,
                      createPopupHTML(countryName, matchingProjects,
                                      calculateProjectStats(matchingProjects)),
                      featureId)

\* handleCountryClick without the early return on an empty match.
handleCountryClick_NoEarlyReturn(v, feature, features) ==
    LET cleared == RemoveExistingPopups(v)
        countryName == CountryNameOf(feature)
        featureId == IF feature.id # 0 THEN feature.id
                     ELSE feature.properties.feature_id
        matchingProjects == MatchingProjects(features, countryName)
    IN showPopup(cleared, feature,
                 createPopupHTML(countryName, matchingProjects,
                                 calculateProjectStats(matchingProjects)),
                 featureId)


\* handleCountryClick also recording the clicked country as the selection.
handleCountryClick_SelectsCountry(v, feature, features) ==
    LET cleared == RemoveExistingPopups(v)
        countryName == CountryNameOf(feature)
        featureId == IF feature.id # 0 THEN feature.id
                     ELSE feature.properties.feature_id
        matchingProjects == MatchingProjects(features, countryName)
    IN IF Len(matchingProjects) = 0 THEN cleared
       ELSE [showPopup(cleared, feature,
                       createPopupHTML(countryName, matchingProjects,
                                       calculateProjectStats(matchingProjects)),
                       featureId)
                EXCEPT !.selectedCountry = Some(countryName)]

handleCountryClick(v, feature, features) ==
    LET cleared == RemoveExistingPopups(v)
        countryName == CountryNameOf(feature)
        featureId == IF feature.id # 0 THEN feature.id
                     ELSE feature.properties.feature_id
        matchingProjects == MatchingProjects(features, countryName)
    IN IF Len(matchingProjects) = 0 THEN cleared
       ELSE showPopup(cleared, feature,
                      createPopupHTML(countryName, matchingProjects,
                                      calculateProjectStats(matchingProjects)),
                      featureId)

\* A feature of the project-points layer as a listener receives it: the
\* array-valued properties arrive as JSON strings.
QueriedPoint(f) ==
    [f EXCEPT !.properties.projects = JsonStringify(@),
              !.properties.sectors = JsonStringify(@),
              !.properties.partners = JsonStringify(@)]

\* handleProjectClick also moving the camera to the clicked point.
handleProjectClick_Recenters(v, feature) ==
    LET cleared == RemoveExistingPopups(v)
        properties == feature.properties
        coordinates == feature.geometry.coordinates
    IN easeTo(AddPopup(cleared, coordinates,
                       createProjectPopupHTML(properties,
                                              JsonParse(properties.projects),
                                              JsonParse(properties.sectors),
                                              JsonParse(properties.partners))),
              [center |-> Some(coordinates), zoom |-> Null, duration |-> 1000])

handleProjectClick(v, feature) ==
    LET cleared == RemoveExistingPopups(v)
        properties == feature.properties
        coordinates == feature.geometry.coordinates
        projects == IF properties.projects.kind = "string"
                    THEN JsonParse(properties.projects) ELSE properties.projects
        sectors == IF properties.sectors.kind = "string"
                   THEN JsonParse(properties.sectors) ELSE properties.sectors
        partners == IF properties.partners.kind = "string"
                    THEN JsonParse(properties.partners) ELSE properties.partners
        throws(value) == value.kind = "string" /\ JsonParseThrows(value)
    IN IF \/ throws(properties.projects)
          \/ throws(properties.sectors)
          \/ throws(properties.partners)
       THEN [cleared EXCEPT !.threw = TRUE]
       ELSE AddPopup(cleared, coordinates,
                     createProjectPopupHTML(properties, projects, sectors,
                                            partners))

(* ------------------------ map events and controls ---------------------- *)

SourceData(id) ==
    IF \E i \in 1..Len(sources) : sources[i].id = id
    THEN sources[CHOOSE i \in 1..Len(sources) : sources[i].id = id].data
    ELSE <<>>

HasLayer(id) == \E i \in 1..Len(layers) : layers[i].id = id

\* The features of a layer as the map hands them to a listener.
BoundaryFeatures == IF HasLayer("world-fills") THEN SourceData("world-boundaries") ELSE <<>>

PointFeatures == IF HasLayer("project-points") THEN SourceData("project-locations") ELSE <<>>

Listening(type, layer) == [type |-> type, layer |-> layer] \in listeners

\* The map dispatches events only while it exists and no listener is running.
MapIdle == mapCurrent /\ pending = <<>>

Apply(v) ==
    /\ popups' = v.popups
    /\ layers' = v.layers
    /\ hoveredStateId' = v.hoveredStateId
    /\ camera' = v.camera
    /\ selectedCountry' = v.selectedCountry

\* The mousemove listener ignoring a feature whose id is falsy.
MouseMove_SkipsIdZero(b) ==
    /\ MapIdle
    /\ Listening("mousemove", "world-fills")
    /\ b \in 1..Len(BoundaryFeatures)
    /\ LET feature == BoundaryFeatures[b]
       IN /\ layers' = IF feature.id # 0
                        THEN setFilter(layers, "world-hover", feature.id)
                        ELSE layers
          /\ hoveredStateId' = IF feature.id # 0 THEN Some(feature.id)
                               ELSE hoveredStateId
          /\ lastOp' = Op("mousemove")
    /\ UNCHANGED <<aggVars, envVars, loadVars, selectedCountry, popups, camera,
                   pending>>

\* The mousemove listener of world-fills, the pointer over polygon b.
MouseMove(b) ==
    /\ MapIdle
    /\ Listening("mousemove", "world-fills")
    /\ b \in 1..Len(BoundaryFeatures)
    /\ LET feature == BoundaryFeatures[b]
           reset == IF ClosureHoveredStateId # Null
                    THEN setFilter(layers, "world-hover", -1)
                    ELSE layers
           id == IF feature.id # 0 THEN feature.id ELSE 0
       IN /\ layers' = setFilter(reset, "world-hover", id)
          /\ hoveredStateId' = Some(id)
          /\ lastOp' = Op("mousemove")
    /\ UNCHANGED <<aggVars, envVars, loadVars, selectedCountry, popups, camera,
                   pending>>

\* The mouseleave listener of world-fills.
MouseLeave ==
    /\ MapIdle
    /\ Listening("mouseleave", "world-fills")
    /\ layers' = IF ClosureHoveredStateId # Null
                 THEN setFilter(layers, "world-hover", -1)
                 ELSE layers
    /\ hoveredStateId' = Null
    /\ lastOp' = Op("mouseleave")
    /\ UNCHANGED <<aggVars, envVars, loadVars, selectedCountry, popups, camera,
                   pending>>

\* The listeners a click has to run, in the order of their registration:
\* b is the polygon under the pointer (0 if none), q the point (0 if none).
ClickListeners(b, q) ==
    (IF b # 0 /\ Listening("click", "world-fills")
     THEN << [listener |-> "world-fills", target |-> b] >> ELSE <<>>)
    \o
    (IF q # 0 /\ Listening("click", "project-points")
     THEN << [listener |-> "project-points", target |-> q] >> ELSE <<>>)

\* The user clicks the map; the map queues the listeners of the layers hit.
Click(b, q) ==
    /\ MapIdle
    /\ b \in 0..Len(BoundaryFeatures)
    /\ q \in 0..Len(PointFeatures)
    /\ ClickListeners(b, q) # <<>>
    /\ pending' = ClickListeners(b, q)
    /\ lastOp' = Op("click")
    /\ UNCHANGED <<aggVars, envVars, loadVars, viewVars>>

\* The click listener of world-fills runs handleCountryClick.
CountryClick ==
    /\ mapCurrent
    /\ pending # <<>>
    /\ Head(pending).listener = "world-fills"
    /\ LET feature == BoundaryFeatures[Head(pending).target]
           v == handleCountryClick(View, feature, projectData)
       IN /\ Apply(v)
          /\ lastOp' = [op |-> "countryClick", target |-> feature.id,
                        matched |-> Len(MatchingProjects(projectData,
                                            CountryNameOf(feature))),
                        easeToCalls |-> v.easeToCalls,
                        peakPopups |-> v.peakPopups, escaped |-> FALSE]
    /\ pending' = Tail(pending)
    /\ UNCHANGED <<aggVars, envVars, loadVars>>

\* The click listener of project-points, handed the feature: it calls
\* handleProjectClick outside any try block, so what that throws leaves the
\* listener.
PointClickListener(feature) ==
    /\ mapCurrent
    /\ pending # <<>>
    /\ Head(pending).listener = "project-points"
    /\ LET v == handleProjectClick(View, feature)
       IN /\ Apply(v)
          /\ lastOp' = [op |-> "projectClick", target |-> Head(pending).target,
                        matched |-> 0,
                        easeToCalls |-> v.easeToCalls,
                        peakPopups |-> v.peakPopups, escaped |-> v.threw]
    /\ pending' = Tail(pending)
    /\ UNCHANGED <<aggVars, envVars, loadVars>>

\* The click listener of project-points runs handleProjectClick.
ProjectClick ==
    /\ pending # <<>>
    /\ Head(pending).listener = "project-points"
    /\ PointClickListener(QueriedPoint(PointFeatures[Head(pending).target]))

\* The same listener handed a point whose projects property is a string
\* that is not JSON text.
MalformedProjectClick ==
    /\ pending # <<>>
    /\ Head(pending).listener = "project-points"
    /\ PointClickListener(
           [QueriedPoint(PointFeatures[Head(pending).target])
               EXCEPT !.properties.projects = MalformedJson])

\* The user closes a popup with its close button.
ClosePopup(i) ==
    /\ MapIdle
    /\ i \in 1..Len(popups)
    /\ popups' = SubSeq(popups, 1, i - 1) \o SubSeq(popups, i + 1, Len(popups))
    /\ lastOp' = Op("closePopup")
    /\ UNCHANGED <<aggVars, envVars, loadVars, selectedCountry, hoveredStateId,
                   layers, camera, pending>>

Entry(center, zoom) == [kind |-> "entry", center |-> center, zoom |-> zoom]

\* The static table with another center for Kenya and no entry for Ukraine.
countryCoordinates_Differs ==
    << <<Afghanistan, Entry(<<6921, 3456>>, 5)>>,
       <<Iraq, Entry(<<4400, 3300>>, 5)>>,
       <<Syria, Entry(<<3800, 3500>>, 6)>>,
       <<Yemen, Entry(<<4700, 1550>>, 6)>>,
       <<Somalia, Entry(<<4600, 500>>, 5)>>,
       <<Ethiopia, Entry(<<4000, 900>>, 5)>>,
       <<Kenya, Entry(<<3682, -129>>, 5)>> >>

\* The static table of focusOnCountry, its centers in 1/100 degree.
countryCoordinates ==
    << <<Afghanistan, Entry(<<6921, 3456>>, 5)>>,
       <<Iraq, Entry(<<4400, 3300>>, 5)>>,
       <<Syria, Entry(<<3800, 3500>>, 6)>>,
       <<Yemen, Entry(<<4700, 1550>>, 6)>>,
       <<Ukraine, Entry(<<3100, 4900>>, 5)>>,
       <<Somalia, Entry(<<4600, 500>>, 5)>>,
       <<Ethiopia, Entry(<<4000, 900>>, 5)>>,
       <<Kenya, Entry(<<3790, -3>>, 5)>> >>

\* focusOnCountry recording the selection only when the table has the name.
focusOnCountry_SelectsWhenFound(v, mapExists, countryName) ==
    IF ~mapExists THEN v
    ELSE LET countryData == GetProp(countryCoordinates, countryName)
         IN IF Truthy(countryData)
            THEN easeTo([v EXCEPT !.selectedCountry = Some(countryName)],
                        IF countryData.kind = "entry"
                        THEN [center |-> Some(countryData.center),
                              zoom |-> Some(countryData.zoom),
                              duration |-> 1500]
                        ELSE [center |-> Null, zoom |-> Null,
                              duration |-> 1500])
            ELSE v

\* focusOnCountry animating to the entry's center at the default zoom.
focusOnCountry_DefaultZoom(v, mapExists, countryName) ==
    IF ~mapExists THEN v
    ELSE LET selected == [v EXCEPT !.selectedCountry = Some(countryName)]
             countryData == GetProp(countryCoordinates, countryName)
         IN IF Truthy(countryData)
            THEN easeTo(selected,
                        IF countryData.kind = "entry"
                        THEN [center |-> Some(countryData.center),
                              zoom |-> Some(DEFAULT_ZOOM),
                              duration |-> 1500]
                        ELSE [center |-> Null, zoom |-> Null,
                              duration |-> 1500])
            ELSE selected

focusOnCountry(v, mapExists, countryName) ==
    IF ~mapExists THEN v
    ELSE LET selected == [v EXCEPT !.selectedCountry = Some(countryName)]
             countryData == GetProp(countryCoordinates, countryName)
         IN IF Truthy(countryData)
            THEN easeTo(selected,
                        IF countryData.kind = "entry"
                        THEN [center |-> Some(countryData.center),
                              zoom |-> Some(countryData.zoom),
                              duration |-> 1500]
                        ELSE \* an inherited property has no center, no zoom
                             [center |-> Null, zoom |-> Null,
                              duration |-> 1500])
            ELSE selected

\* resetView moving the camera without clearing the selection.
resetView_KeepsSelection(v, mapExists) ==
    IF ~mapExists THEN v
    ELSE easeTo(v, [center |-> Some(WORLD_CENTER), zoom |-> Some(DEFAULT_ZOOM),
                    duration |-> 1500])

resetView(v, mapExists) ==
    IF ~mapExists THEN v
    ELSE easeTo([v EXCEPT !.selectedCountry = Null],
                [center |-> Some(WORLD_CENTER), zoom |-> Some(DEFAULT_ZOOM),
                 duration |-> 1500])

\* The user presses the button of a country of the filter panel.
FocusOnCountry(k) ==
    /\ phase = "mounted"
    /\ pending = <<>>
    /\ k \in 1..Len(countries)
    /\ LET v == focusOnCountry(View, mapCurrent, countries[k])
       IN /\ Apply(v)
          /\ lastOp' = [op |-> "focusOnCountry", target |-> -1, matched |-> 0,
                        easeToCalls |-> v.easeToCalls,
                        peakPopups |-> v.peakPopups, escaped |-> FALSE]
    /\ UNCHANGED <<aggVars, envVars, loadVars, pending>>

\* The user presses the "All Countries" button.
ResetView ==
    /\ phase = "mounted"
    /\ pending = <<>>
    /\ LET v == resetView(View, mapCurrent)
       IN /\ Apply(v)
          /\ lastOp' = [op |-> "resetView", target |-> -1, matched |-> 0,
                        easeToCalls |-> v.easeToCalls,
                        peakPopups |-> v.peakPopups, escaped |-> FALSE]
    /\ UNCHANGED <<aggVars, envVars, loadVars, pending>>

Next ==
    \/ MountEffect
    \/ MapLoad
    \/ \E w \in {"project", "boundaries"}, o \in {"ok", "notOk", "rejected"} :
           FetchSettles(w, o)
    \/ AfterFetches
    \/ \E w \in {"project", "boundaries"}, o \in {"parsed", "rejected"} :
           JsonSettles(w, o)
    \/ AfterJson
    \/ Unmount
    \/ \E b \in 1..Len(WorldBoundaries) : MouseMove(b)
    \/ MouseLeave
    \/ \E b \in 0..Len(WorldBoundaries), q \in 0..MaxLoaded : Click(b, q)
    \/ CountryClick
    \/ ProjectClick
    \/ \E i \in 1..Len(popups) : ClosePopup(i)
    \/ \E k \in 1..Len(countries) : FocusOnCountry(k)
    \/ ResetView

Spec == Init /\ [][Next]_vars

\* The view when the map may also hand the point listener a malformed
\* payload.
NextMalformed ==
    \/ Next
    \/ MalformedProjectClick

SpecMalformed == Init /\ [][NextMalformed]_vars

\* The startup of the component alone: the effect, the load handler and the
\* cleanup.  The continuations of the handler are jobs of the event loop,
\* which runs every job that is ready; the body of a response that has
\* arrived is read to its end or the read fails.  Nothing makes a fetch
\* settle.
NextLoad ==
    \/ MountEffect
    \/ MapLoad
    \/ \E w \in {"project", "boundaries"}, o \in {"ok", "notOk", "rejected"} :
           FetchSettles(w, o)
    \/ AfterFetches
    \/ \E w \in {"project", "boundaries"}, o \in {"parsed", "rejected"} :
           JsonSettles(w, o)
    \/ AfterJson
    \/ Unmount

SpecLoad ==
    /\ Init
    /\ [][NextLoad]_vars
    /\ WF_vars(AfterFetches)
    /\ WF_vars(\E w \in {"project", "boundaries"}, o \in {"parsed", "rejected"} :
                   JsonSettles(w, o))
    /\ WF_vars(AfterJson)

(* --------------------------- data generator ---------------------------- *)

\* Math.random() returns n / RandSteps for a draw n of Draws; the budget,
\* beneficiary and coordinate draws take the two ends of that range.
Draws == 0..(RandSteps - 1)

EdgeDraws == {0, RandSteps - 1}

\* The countries of the generator: code, name and center in 1/100 degree.
COUNTRIES ==
    << [code |-> "AFG", name |-> Afghanistan, center |-> <<6921, 3456>>],
       [code |-> "IRQ", name |-> Iraq, center |-> <<4400, 3300>>],
       [code |-> "SYR", name |-> Syria, center |-> <<3800, 3500>>],
       [code |-> "YEM", name |-> Yemen, center |-> <<4700, 1550>>],
       [code |-> "UKR", name |-> Ukraine, center |-> <<3100, 4900>>],
       [code |-> "SOM", name |-> Somalia, center |-> <<4600, 500>>],
       [code |-> "ETH", name |-> Ethiopia, center |-> <<4000, 900>>],
       [code |-> "KEN", name |-> Kenya, center |-> <<3790, -3>>] >>

PROJECT_STATUSES == <<"Active", "Paused", "Cancelled", "Completed">>

\* array[Math.floor(Math.random() * array.length)]
getRandomElement(n, array) == array[(n * Len(array)) \div RandSteps + 1]

\* Math.floor(Math.random() * (max - min + 1)) + min, computed as
\* floor(n * (max - min + 1) / RandSteps) + min without leaving 32 bits.
getRandomNumber(n, min, max) ==
    LET span == max - min + 1
    IN (span \div RandSteps) * n + ((span % RandSteps) * n) \div RandSteps + min

getRandomBudget(n, country) ==
    LET emergencyCountries == <<"AFG", "IRQ", "SYR", "YEM", "SOM">>
        baseMin == IF ArrayIncludes(emergencyCountries, country)
                   THEN 500000 ELSE 100000
        baseMax == IF ArrayIncludes(emergencyCountries, country)
                   THEN 50000000 ELSE 20000000
    IN getRandomNumber(n, baseMin, baseMax)

\* ratio = n / RandSteps * 0.1 + 0.02 = numerator / (100 * RandSteps);
\* Math.floor((budget * ratio) / 100), computed without leaving 32 bits.
getRandomBeneficiaries(n, budget) ==
    LET numerator == 10 * n + 2 * RandSteps
        denominator == 10000 * RandSteps
    IN (budget \div denominator) * numerator
         + ((budget % denominator) * numerator) \div denominator

\* [baseCoord[0] + lngOffset, baseCoord[1] + latOffset] in 1/100 degree,
\* rounded down.
getRegionCoordinates(nLat, nLng, baseCoord) ==
    LET latOffset == (400 * nLat - 200 * RandSteps) \div RandSteps
        lngOffset == (600 * nLng - 300 * RandSteps) \div RandSteps
    IN <<baseCoord[1] + lngOffset, baseCoord[2] + latOffset>>

DaysInYear(year) == IF year % 4 = 0 THEN 366 ELSE 365

DaysInMonth(year, month) ==
    IF month = 2 THEN (IF year % 4 = 0 THEN 29 ELSE 28)
    ELSE IF month \in {4, 6, 9, 11} THEN 30 ELSE 31

\* The number of days from 1 January 2020 to 1 January of the year.
RECURSIVE DaysBeforeYear(_)
DaysBeforeYear(year) ==
    IF year <= 2020 THEN 0
    ELSE DaysBeforeYear(year - 1) + DaysInYear(year - 1)

\* The date a number of days after 1 January of the year, as
\* <<year, month, day>>, the order of the text YYYY-MM-DD.
RECURSIVE DateInMonth(_, _, _)
DateInMonth(year, month, days) ==
    IF days < DaysInMonth(year, month) THEN <<year, month, days + 1>>
    ELSE DateInMonth(year, month + 1, days - DaysInMonth(year, month))

RECURSIVE DateInYear(_, _)
DateInYear(year, days) ==
    IF days < DaysInYear(year) THEN DateInMonth(year, 1, days)
    ELSE DateInYear(year + 1, days - DaysInYear(year))

\* A time between 1 January of startYear and 31 December of endYear, both at
\* midnight, cut to its date; the clock of the process is UTC.
generateRandomDate(n, startYear, endYear) ==
    LET start == DaysBeforeYear(startYear)
        end == DaysBeforeYear(endYear + 1) - 1
    IN DateInYear(2020, start + (n * (end - start)) \div RandSteps)

\* One round of the inner loop of generateProjects, for country c and the
\* draws of its calls of Math.random: the record it pushes, with the fields
\* the record constraints are about.
GenerateProject(c, nBudget, nBeneficiaries, nLat, nLng, nStatus, nStart, nEnd) ==
    /\ c \in 1..Len(COUNTRIES)
    /\ LET country == COUNTRIES[c]
           budget == getRandomBudget(nBudget, country.code)
           beneficiaries == getRandomBeneficiaries(nBeneficiaries, budget)
           coordinates == getRegionCoordinates(nLat, nLng, country.center)
       IN generated' =
              Some([properties |->
                        [Country |-> country.name,
                         Budget |-> budget,
                         Beneficiaries |-> beneficiaries,
                         Status |-> getRandomElement(nStatus, PROJECT_STATUSES),
                         StartDate |-> generateRandomDate(nStart, 2020, 2024),
                         EndDate |-> generateRandomDate(nEnd, 2024, 2026)],
                    geometry |-> [type |-> "Point",
                                  coordinates |-> coordinates]])
    /\ UNCHANGED <<aggVars, accessToken, serverFeatures, formatted, loadVars,
                   viewVars, pending, lastOp>>

InitGen ==
    /\ aggInput = <<>>
    /\ aggIdx = 0
    /\ aggObj = <<>>
    /\ aggState = "idle"
    /\ accessToken = PublicToken
    /\ serverFeatures = <<>>
    /\ generated = Null
    /\ formatted = Null
    /\ ComponentInit

\* A round reads nothing an earlier round wrote: a run is one round.
NextGen ==
    /\ generated = Null
    /\ \E c \in 1..Len(COUNTRIES),
          nBudget, nBeneficiaries, nLat, nLng \in EdgeDraws,
          nStatus, nStart, nEnd \in Draws :
           GenerateProject(c, nBudget, nBeneficiaries, nLat, nLng, nStatus,
                           nStart, nEnd)

SpecGen == InitGen /\ [][NextGen]_vars

(* ------------------------- totals in the popups ------------------------ *)

\* A non-negative number with a fraction: whole + milli / 1000.
Decimal(whole, milli) == [whole |-> whole, milli |-> milli]

\* The digits of the fraction, without the zeros at its end.
FractionDigits(milli) ==
    IF milli = 0 THEN <<>>
    ELSE IF milli % 100 = 0 THEN <<milli \div 100>>
    ELSE IF milli % 10 = 0 THEN <<milli \div 100, (milli \div 10) % 10>>
    ELSE <<milli \div 100, (milli \div 10) % 10, milli % 10>>

\* String(x): the digits before and after the decimal point.
StringOfNumber(x) ==
    [integerDigits |-> NumberToString(x.whole),
     fractionDigits |-> FractionDigits(x.milli)]

\* parseInt(text): the integer of the digits up to the first character that
\* is no digit, here the decimal point.
parseIntOfText(text) == parseInt(text.integerDigits)

\* x.toLocaleString(): the groups of three digits of the whole part and, after
\* the decimal point, up to three digits of the fraction.
NumberToLocaleString(x) ==
    [groups |-> toLocaleString(x.whole),
     fractionDigits |-> FractionDigits(x.milli)]

\* ${stats.totalBudget.toLocaleString()} of createPopupHTML
CountryPopupTotal(total) == NumberToLocaleString(total)

\* parseInt(String(properties.totalBudget)).toLocaleString() of
\* createProjectPopupHTML
PointPopupTotal(total) ==
    NumberToLocaleString(Decimal(parseIntOfText(StringOfNumber(total)), 0))

\* The fractions, in thousandths, of the totals of SpecFormat.
Fractions == {0, 250, 500, 999}

\* Both renderers format one total.
FormatTotal(whole, milli) ==
    /\ formatted = Null
    /\ formatted' = Some([total |-> Decimal(whole, milli),
                          country |-> CountryPopupTotal(Decimal(whole, milli)),
                          point |-> PointPopupTotal(Decimal(whole, milli))])
    /\ UNCHANGED <<aggVars, accessToken, serverFeatures, generated, loadVars,
                   viewVars, pending, lastOp>>

InitFormat ==
    /\ aggInput = <<>>
    /\ aggIdx = 0
    /\ aggObj = <<>>
    /\ aggState = "idle"
    /\ accessToken = PublicToken
    /\ serverFeatures = <<>>
    /\ generated = Null
    /\ formatted = Null
    /\ ComponentInit

NextFormat == \E whole \in 0..MaxWhole, milli \in Fractions : FormatTotal(whole, milli)

SpecFormat == InitFormat /\ [][NextFormat]_vars

(* ------------------ properties of the aggregation ---------------------- *)

BudgetOf(p) == p.Budget

BeneficiariesOf(p) == p.Beneficiaries

PropertiesOf(f) == f.properties

TotalBudgetOf(entry) == entry[2].totalBudget

TotalBeneficiariesOf(entry) == entry[2].totalBeneficiaries

\* The records among the first n of the input whose Country is key.
RecordsOf(key, n) ==
    SelectSeq(Map(SubSeq(aggInput, 1, n), PropertiesOf),
              LAMBDA p : p.Country = key)

NoDuplicates(arr) ==
    \A i, j \in 1..Len(arr) : i # j => arr[i] # arr[j]

FirstIndex(arr, x) ==
    CHOOSE i \in 1..Len(arr) :
        arr[i] = x /\ \A j \in 1..(i - 1) : arr[j] # x

\* list holds the values of source once each, in order of first occurrence.
FirstSeenOrder(list, source) ==
    /\ NoDuplicates(list)
    /\ Range(list) = Range(source)
    /\ \A i, j \in 1..Len(list) :
           i < j => FirstIndex(source, list[i]) < FirstIndex(source, list[j])

C2_OneEntryPerCountry ==
    aggState # "running" =>
        /\ aggState = "returned"
        /\ NoDuplicates(OwnKeys(aggObj))
        /\ Range(OwnKeys(aggObj))
             = {aggInput[i].properties.Country : i \in 1..Len(aggInput)}

\* C3: after each record is folded in, every aggregate lists exactly the
\* records seen so far with its Country, in source order, and its totals are
\* the sums over that list.
C3_AggregateMatchesProjects ==
    \A i \in 1..Len(aggObj) :
        LET key == aggObj[i][1]
            agg == aggObj[i][2]
        IN /\ agg.projects = RecordsOf(key, aggIdx)
           /\ agg.totalBudget = SumSeq(Map(agg.projects, BudgetOf))
           /\ agg.totalBeneficiaries
                = SumSeq(Map(agg.projects, BeneficiariesOf))

C3_Witness ==
    /\ aggState = "running"
    /\ aggIdx < Len(aggInput)
    /\ \E i \in 1..Len(aggObj) :
           /\ Len(aggObj[i][2].projects) = 2
           /\ aggObj[i][2].projects[1] # aggObj[i][2].projects[2]

SectorOf(p) == p.Sector

PartnerOf(p) == p.ImplementingPartner

\* C4: in every aggregate, sectors and partners hold the Sector and the
\* Implementing Partner values of its projects, once each, in order of first
\* occurrence.
C4_DistinctFirstSeen ==
    \A i \in 1..Len(aggObj) :
        LET agg == aggObj[i][2]
        IN /\ FirstSeenOrder(agg.sectors, Map(agg.projects, SectorOf))
           /\ FirstSeenOrder(agg.partners, Map(agg.projects, PartnerOf))

C4_Witness ==
    \E i \in 1..Len(aggObj) :
        LET agg == aggObj[i][2]
        IN /\ Len(agg.projects) = 3
           /\ Len(agg.sectors) = 2
           /\ Len(agg.partners) = 2
           /\ agg.projects[1].Sector = agg.projects[3].Sector
           /\ agg.projects[1].Sector # agg.projects[2].Sector

(* ------------------- properties of the component ----------------------- *)

\* The value the filter of the hover layer compares feature_id with.
HoverFilter ==
    IF HasLayer("world-hover")
    THEN layers[CHOOSE i \in 1..Len(layers) : layers[i].id = "world-hover"].filter
    ELSE Null

\* C5: at most one popup is on display in every reachable state, between the
\* two listeners of one click included, and no handler had more than one on
\* display while it ran.
C5_AtMostOnePopup ==
    /\ Len(popups) <= 1
    /\ lastOp.op \in {"countryClick", "projectClick"} => lastOp.peakPopups <= 1

\* A click hit both layers: the boundary listener has shown its popup and the
\* point listener is still to run.
C5_Witness ==
    /\ pending # <<>>
    /\ Head(pending).listener = "project-points"
    /\ lastOp.op = "countryClick"
    /\ Len(popups) = 1

\* The filter panel button k names a country the static table has no own
\* entry for.
UnknownName(k) == ~HasOwn(countryCoordinates, countries[k])

C7_LeaveClearsHighlight ==
    lastOp.op = "mouseleave" =>
        /\ HoverFilter = Some(-1)
        /\ hoveredStateId = Null

\* Country, lower-cased, contains name, lower-cased, at some offset.
ContainsIgnoringCase(country, name) ==
    \E offset \in 0..Len(country) :
        /\ offset + Len(name) <= Len(country)
        /\ \A j \in 1..Len(name) :
               LowerChar(country[offset + j]) = LowerChar(name[j])

\* The raw records a click on the polygon with this id has to select.
ExpectedMatch(id) ==
    SelectSeq(projectData,
              LAMBDA f : ContainsIgnoringCase(f.properties.Country,
                             CountryNameOf(BoundaryFeatures[id + 1])))

\* C8: the popup of a boundary click shows the statistics of exactly the raw
\* records whose Country contains the polygon's name, case ignored.
C8_PopupOverMatchedSubset ==
    (lastOp.op = "countryClick" /\ lastOp.matched > 0) =>
        LET matched == Map(ExpectedMatch(lastOp.target), PropertiesOf)
        IN /\ Len(popups) = 1
           /\ popups[1].html.title
                = CountryNameOf(BoundaryFeatures[lastOp.target + 1])
           /\ popups[1].html.projectsList = Map(matched, ProjectNameOf)
           /\ popups[1].html.projectCount = Len(matched)
           /\ popups[1].html.budget
                = toLocaleString(SumSeq(Map(matched, BudgetOf)))
           /\ popups[1].html.beneficiaries
                = toLocaleString(SumSeq(Map(matched, BeneficiariesOf)))
           /\ FirstSeenOrder(popups[1].html.sectorsList, Map(matched, SectorOf))
           /\ FirstSeenOrder(popups[1].html.partnersList,
                             Map(matched, PartnerOf))

\* A click on the polygon "Kenya" matched the records of Kenya and of KENYA:
\* the popup shows more than the aggregate of Kenya holds.
C8_Witness ==
    /\ lastOp.op = "countryClick"
    /\ Len(popups) = 1
    /\ popups[1].html.title = Kenya
    /\ popups[1].html.projectCount = 2
    /\ popups[1].html.budget = <<1, 500>>
    /\ \E i \in 1..Len(PointFeatures) :
           /\ PointFeatures[i].properties.country = Kenya
           /\ PointFeatures[i].properties.totalBudget = 1000

\* The listener about to run is the boundary click listener, and the name of
\* the clicked polygon matches no record.
ZeroMatchClick ==
    /\ CountryClick
    /\ MatchingProjects(projectData,
           CountryNameOf(BoundaryFeatures[Head(pending).target])) = <<>>

\* C9: a boundary click that matches no record shows no popup, sets no error
\* and leaves the camera, the highlight and the selection as they were.
C9_ZeroMatchIsSilent ==
    [][ZeroMatchClick =>
          /\ popups' = <<>>
          /\ lastOp'.peakPopups = Len(popups)
          /\ lastOp'.easeToCalls = 0
          /\ UNCHANGED <<error, isLoading, camera, layers, hoveredStateId,
                         selectedCountry>>]_vars

C9_Witness ==
    /\ lastOp.op = "countryClick"
    /\ lastOp.matched = 0
    /\ hoveredStateId # Null
    /\ camera # Null
    /\ popups = <<>>

FetchFailed(w) == requests[w].fetch \in {"rejected", "notOk"}

\* C10: sources, layers and listeners exist only when both fetches succeeded
\* and both bodies parsed; once a fetch rejected or returned a non-success
\* status nothing is added to the map, and when the handler has resumed the
\* load has failed with the generic message and isLoading is false.
C10_StartupFanIn ==
    /\ (sources # <<>> \/ layers # <<>> \/ listeners # {}) =>
           \A w \in DOMAIN requests :
               requests[w].fetch = "ok" /\ requests[w].json = "parsed"
    /\ (\E w \in DOMAIN requests : FetchFailed(w)) =>
           /\ sources = <<>> /\ layers = <<>> /\ listeners = {}
           /\ loadPc \in {"awaitFetch", "failed"}
           /\ loadPc = "failed" =>
                  error = Some(LoadFailedMessage) /\ ~isLoading

C10_Witness ==
    /\ requests.project.fetch = "ok"
    /\ requests.boundaries.fetch = "notOk"
    /\ loadPc = "failed"
    /\ error = Some(LoadFailedMessage)

\* C11: with a token that is empty, or is not a public token (validateEnvironment
\* rejects it), the effect ends in the error state with isLoading false,
\* creates no map and issues no fetch.
C11_BadTokenIsFatal ==
    (phase = "mounted" /\ ~validateEnvironment(accessToken).isValid) =>
        /\ error # Null
        /\ ~isLoading
        /\ ~mapCurrent
        /\ \A w \in DOMAIN requests : requests[w].fetch = "idle"

\* C12: whatever is thrown while one of the four map listeners runs (a
\* malformed JSON payload of a clicked point included) is caught inside the
\* listener: no exception leaves it.
C12_NoExceptionEscapes ==
    lastOp.op \in {"mousemove", "mouseleave", "countryClick", "projectClick"}
        => ~lastOp.escaped

\* C13: selectedCountry changes only in a step of focusOnCountry or of
\* resetView; pointer moves and leaves, both kinds of click, closing a popup
\* and every step of the data load leave it as it was.
C13_OnlyControlsChangeSelection ==
    [][selectedCountry' # selectedCountry =>
          \/ \E k \in 1..Len(countries) : FocusOnCountry(k)
          \/ ResetView]_vars

\* A boundary click with matching records has run while a country was
\* selected.
C13_Witness ==
    /\ selectedCountry # Null
    /\ lastOp.op = "countryClick"
    /\ lastOp.matched > 0
    /\ Len(popups) = 1

\* C14: the selection starts at None, a click on a boundary polygon with
\* matching records leaves the selection at the clicked country, and resetView
\* leaves it at None.
C14_ClickSelectsCountry ==
    /\ lastOp.op = "none" => selectedCountry = Null
    /\ (lastOp.op = "countryClick" /\ lastOp.matched > 0) =>
           selectedCountry
               = Some(CountryNameOf(BoundaryFeatures[lastOp.target + 1]))
    /\ (lastOp.op = "resetView" /\ mapCurrent) => selectedCountry = Null

\* C15: resetView, run while the map exists, leaves the selection at None and
\* requests one camera animation to center [20, 0] and zoom 2, whatever the
\* selection, popup and highlight were; the popups, the layers' filters and
\* the highlighted feature stay as they were.
C15_ResetViewResets ==
    [][(lastOp'.op = "resetView" /\ mapCurrent) =>
          /\ selectedCountry' = Null
          /\ camera' = Some([center |-> Some(<<2000, 0>>), zoom |-> Some(2),
                             duration |-> 1500])
          /\ lastOp'.easeToCalls = 1
          /\ UNCHANGED <<popups, layers, hoveredStateId>>]_vars

\* resetView has run with a popup open and a polygon highlighted.
C15_Witness ==
    /\ lastOp.op = "resetView"
    /\ mapCurrent
    /\ Len(popups) = 1
    /\ hoveredStateId # Null
    /\ HoverFilter # Null
    /\ selectedCountry = Null
    /\ camera # Null /\ camera[1].center = Some(WORLD_CENTER)

\* The camera animation focusOnCountry requests for an entry of the table.
EntryAnimation(name) ==
    LET entry == countryCoordinates[OwnIndex(countryCoordinates, name)][2]
    IN Some([center |-> Some(entry.center), zoom |-> Some(entry.zoom),
             duration |-> 1500])

Highlighted ==
    {i \in 1..Len(BoundaryFeatures) :
        HoverFilter = Some(BoundaryFeatures[i].properties.feature_id)}

\* C17: a pointer move over a boundary polygon leaves exactly that polygon
\* highlighted, the polygon with identifier 0 included and whatever was
\* highlighted before, and records its identifier; no reachable state has
\* more than one polygon highlighted.
C17_MoveHighlightsOne ==
    [][/\ \A b \in 1..Len(BoundaryFeatures) :
            MouseMove(b) =>
                /\ Highlighted' = {b}
                /\ hoveredStateId' = Some(BoundaryFeatures[b].id)
       /\ Cardinality(Highlighted') <= 1]_vars

\* The pointer moved from another polygon onto the polygon with identifier 0.
C17_Witness ==
    /\ lastOp.op = "mousemove"
    /\ HoverFilter = Some(0)
    /\ Highlighted = {1}
    /\ hoveredStateId = Some(0)

\* The popup that shows the aggregate a point of the project-locations source
\* carries, at the point's coordinate.
PopupOfPoint(point) ==
    [lngLat |-> point.geometry.coordinates,
     html |-> [title |-> point.properties.country,
               budget |-> toLocaleString(point.properties.totalBudget),
               beneficiaries |->
                   toLocaleString(point.properties.totalBeneficiaries),
               projectCount |-> Len(point.properties.projects),
               projectsList |-> Map(point.properties.projects, ProjectNameOf),
               sectorsList |-> point.properties.sectors,
               partnersList |-> point.properties.partners]]

\* C18: a click on an aggregated point leaves one popup, at the point's own
\* coordinate, that shows the country, totals, projects, sectors and partners
\* stored with the point, in their stored order; it requests no camera
\* animation and changes neither the highlight nor the selection.
C18_PointClickShowsAttached ==
    [][ProjectClick =>
          /\ popups' = << PopupOfPoint(PointFeatures[Head(pending).target]) >>
          /\ lastOp'.easeToCalls = 0
          /\ UNCHANGED <<camera, layers, hoveredStateId, selectedCountry>>]_vars

\* The Kenya point was clicked while the data also holds a KENYA record: the
\* popup shows the totals stored with the point.
C18_Witness ==
    /\ lastOp.op = "projectClick"
    /\ \E i \in 1..Len(projectData) : CountryOf(projectData[i]) = KENYA
    /\ Len(popups) = 1
    /\ popups[1].html.title = Kenya
    /\ popups[1].html.budget = <<1, 0>>
    /\ popups[1].html.projectCount = 1
    /\ popups[1].lngLat = <<3790, -3>>

\* C19: once the load has succeeded the filter panel lists the distinct
\* countries of the loaded records, each once, in order of first occurrence,
\* and the listed countries are the keys of the mapping processProjectData
\* returned for these records, one point of the map each; the button of a listed country runs
\* focusOnCountry with that country, the "All Countries" button resetView.
C19_PanelListsDistinctCountries ==
    [][/\ loadPc' = "done" =>
            /\ FirstSeenOrder(countries', Map(projectData', CountryOf))
            /\ Range(countries')
                 = {PointFeatures'[i].properties.country :
                        i \in 1..Len(PointFeatures')}
       /\ \A k \in 1..Len(countries) :
            (FocusOnCountry(k) /\ mapCurrent) =>
                /\ lastOp'.op = "focusOnCountry"
                /\ selectedCountry' = Some(countries[k])
       /\ (ResetView /\ mapCurrent) =>
                /\ lastOp'.op = "resetView"
                /\ selectedCountry' = Null]_vars

\* Two Kenya records were loaded: the
\* panel lists Kenya once.
C19_Witness ==
    /\ loadPc = "done"
    /\ Len(projectData) = 2
    /\ CountryOf(projectData[1]) = Kenya
    /\ CountryOf(projectData[2]) = Kenya
    /\ countries = <<Kenya>>
    /\ lastOp.op = "focusOnCountry"

\* The text YYYY-MM-DD of a is earlier than that of b.
DateBefore(a, b) ==
    \/ a[1] < b[1]
    \/ a[1] = b[1] /\ a[2] < b[2]
    \/ a[1] = b[1] /\ a[2] = b[2] /\ a[3] < b[3]

\* C20: every record the generator writes has an End Date not earlier than
\* its Start Date, a Budget and Beneficiaries that are not negative, a Status
\* among Active, Paused, Cancelled and Completed, a longitude in [-180, 180]
\* and a latitude in [-90, 90].
C20_GeneratedRecordIsValid ==
    generated # Null =>
        LET record == generated[1].properties
            coordinates == generated[1].geometry.coordinates
        IN /\ ~DateBefore(record.EndDate, record.StartDate)
           /\ record.Budget >= 0
           /\ record.Beneficiaries >= 0
           /\ record.Status \in {"Active", "Paused", "Cancelled", "Completed"}
           /\ coordinates[1] >= -18000 /\ coordinates[1] <= 18000
           /\ coordinates[2] >= -9000 /\ coordinates[2] <= 9000

(* ---------------- properties of the startup and the data --------------- *)

FetchPending(w) == requests[w].fetch = "pending"

FetchRejected(w) == requests[w].fetch = "rejected"

BothFetchesSettled ==
    \A w \in DOMAIN requests : requests[w].fetch \in {"ok", "notOk", "rejected"}

\* Both sources, the project-points layer and the four listeners are there.
Installed ==
    /\ HasLayer("world-fills")
    /\ HasLayer("project-points")
    /\ Len(sources) = 2
    /\ listeners = MapEventListeners

\* The load has ended in exactly one of its two outcomes.
LoadEnded == ~isLoading /\ ((error # Null) # Installed)

\* C21 as stated: once both fetches have settled the load ends, with the
\* error set or with sources, layers and listeners installed and not both;
\* while a fetch has not settled isLoading is true, no error is set and no
\* layer is added.
C21_EndsIffBothSettle ==
    /\ [](\A w \in DOMAIN requests :
             FetchPending(w) => isLoading /\ error = Null /\ layers = <<>>)
    /\ BothFetchesSettled ~> LoadEnded

\* C21 amended: the load ends once both fetches have settled or one of them
\* has rejected; while a fetch has not settled and none has rejected
\* isLoading is true, no error is set and no layer is added.
C21_EndsWhenSettledOrRejected ==
    /\ []((/\ \E w \in DOMAIN requests : FetchPending(w)
           /\ ~\E w \in DOMAIN requests : FetchRejected(w))
             => isLoading /\ error = Null /\ layers = <<>>)
    /\ (BothFetchesSettled \/ \E w \in DOMAIN requests : FetchRejected(w))
          ~> LoadEnded

\* One fetch rejected and the load ended in the error state while the other
\* fetch had not settled.
C21_Witness ==
    /\ FetchRejected("project")
    /\ FetchPending("boundaries")
    /\ error = Some(LoadFailedMessage)
    /\ ~isLoading
    /\ layers = <<>>

\* The countries of the aggregated points, in the order Object.entries
\* enumerates the mapping when addProjectLayers builds them.
PointCountries(projectsByCountryRegion) ==
    LET points == ProjectLocations(projectsByCountryRegion)
    IN [i \in 1..Len(points) |-> points[i].properties.country]

\* C22: the entries of the mapping processProjectData returns, as
\* addProjectLayers enumerates them, are in the order in which each country
\* first occurs in the input, Countries that are decimal numbers included.
C22_EntriesInFirstOccurrenceOrder ==
    aggState = "returned" =>
        PointCountries(aggObj) = SetSpread(Map(aggInput, CountryOf))

\* The coordinate of the first record of the input whose Country is key.
FirstCoordinateOf(key) ==
    aggInput[FirstIndex(Map(aggInput, CountryOf), key)].geometry.coordinates

\* C23: after every iteration the coordinate of each aggregate, and of the
\* point addProjectLayers builds from it, is the coordinate of the first
\* record of the input with the aggregate's country.
C23_CoordinateOfFirstRecord ==
    \A i \in 1..Len(aggObj) :
        /\ aggObj[i][2].coordinates = FirstCoordinateOf(aggObj[i][1])
        /\ ProjectLocations(aggObj)[i].geometry.coordinates
             = FirstCoordinateOf(aggObj[i][1])

\* Three Kenya records at three places were aggregated: the aggregate is at
\* the first one's.
C23_Witness ==
    /\ aggState = "returned"
    /\ Len(aggInput) = 3
    /\ Len(aggObj) = 1
    /\ Len(aggObj[1][2].projects) = 3
    /\ aggObj[1][2].coordinates = aggInput[1].geometry.coordinates
    /\ aggInput[2].geometry.coordinates # aggInput[1].geometry.coordinates
    /\ aggInput[3].geometry.coordinates # aggInput[1].geometry.coordinates

\* C24: both popups show a total as the whole number it truncates to, and so
\* show the same text for the same total, with a fraction or without.
C24_BothPopupsTruncate ==
    formatted # Null =>
        LET truncated == [groups |-> toLocaleString(formatted[1].total.whole),
                          fractionDigits |-> <<>>]
        IN /\ formatted[1].country = truncated
           /\ formatted[1].point = truncated

\* The figures calculateProjectStats returns for the records of the input
\* whose Country is c.
StatsOfCountry(c) ==
    calculateProjectStats(SelectSeq(aggInput, LAMBDA f : CountryOf(f) = c))

\* The figures of the aggregate stored under c.
StoredFigures(c) ==
    LET agg == aggObj[OwnIndex(aggObj, c)][2]
    IN [totalBudget |-> agg.totalBudget,
        totalBeneficiaries |-> agg.totalBeneficiaries,
        sectors |-> agg.sectors,
        partners |-> agg.partners]

\* processProjectData has ended, by returning or by throwing.
AggEnded == aggState \in {"returned", "threw"}

\* C25: for every input and every country c of it, processProjectData stores
\* an aggregate for c whose totals, sectors and partners are those that
\* calculateProjectStats returns for the records of c.
C25_PathsAgree ==
    AggEnded =>
        \A c \in Range(Map(aggInput, CountryOf)) :
            /\ aggState = "returned"
            /\ HasOwn(aggObj, c)
            /\ StoredFigures(c) = StatsOfCountry(c)

\* C26: processProjectData never throws, whatever the Country of a record
\* is, the names of inherited properties included, and every record it has
\* processed is listed in the aggregate stored under its own Country.
C26_NeverThrows ==
    /\ aggState # "threw"
    /\ \A n \in 1..aggIdx :
           LET p == aggInput[n].properties
           IN /\ HasOwn(aggObj, p.Country)
              /\ ArrayIncludes(aggObj[OwnIndex(aggObj, p.Country)][2].projects, p)

RemovedInFlight == ~mapCurrent /\ loadPc \in {"awaitFetch", "awaitJson"}

\* C28: when the cleanup has removed the map while the startup load is in
\* flight, no later step adds a source, a layer or a listener; the load does
\* not complete but ends in its catch block, with the error set; and no popup
\* is shown at any time after the removal.
C28_NothingAddedToRemovedMap ==
    [][/\ RemovedInFlight =>
            /\ UNCHANGED <<sources, layers, listeners>>
            /\ loadPc' # "done"
            /\ loadPc' = "failed" =>
                   error' = Some(LoadFailedMessage) /\ ~isLoading'
       /\ (phase' = "unmounted" /\ listeners' = {}) => popups' = <<>>]_vars

\* Both bodies were parsed after the map had been removed: the load ended in
\* the error state and the map had got nothing.
C28_Witness ==
    /\ phase = "unmounted"
    /\ \A w \in DOMAIN requests : requests[w].json = "parsed"
    /\ loadPc = "failed"
    /\ error = Some(LoadFailedMessage)
    /\ sources = <<>>
    /\ layers = <<>>
    /\ listeners = {}
    /\ popups = <<>>

\* C29: in every reachable state with an error set, isLoading is false, the
\* list of the filter panel is empty, and the map has none of the sources and
\* layers or all of them.
C29_ErrorStateIsClean ==
    error # Null =>
        /\ ~isLoading
        /\ countries = <<>>
        /\ (sources = <<>> /\ layers = <<>>) \/ Installed

\* The entry of the generator's COUNTRIES whose name is the Country of the
\* generated record.
GeneratedCountry ==
    COUNTRIES[CHOOSE c \in 1..Len(COUNTRIES) :
                  COUNTRIES[c].name = generated[1].properties.Country]

\* C30: the Country of every record the generator writes has an entry in the
\* static table of focusOnCountry, with the center the generator has for the
\* country, and focusOnCountry with that Country requests one camera
\* animation, to that center.
C30_GeneratedCountriesAreKnown ==
    generated # Null =>
        LET name == generated[1].properties.Country
            v == focusOnCountry(View, TRUE, name)
        IN /\ HasOwn(countryCoordinates, name)
           /\ GetProp(countryCoordinates, name).center = GeneratedCountry.center
           /\ v.selectedCountry = Some(name)
           /\ v.easeToCalls = 1
           /\ v.camera # Null
           /\ v.camera[1].center = Some(GeneratedCountry.center)

\* A record of Kenya, the last country of the generator, was generated.
C30_Witness ==
    /\ generated # Null
    /\ generated[1].properties.Country = Kenya
    /\ GeneratedCountry.code = "KEN"
    /\ GetProp(countryCoordinates, Kenya).center = <<3790, -3>>

====
